---- MODULE Spec2Model ----
(***************************************************************************)
(* Model of industrial_moveit's distance checking:                         *)
(*   - the narrow-phase callback distanceDetailedCallback and              *)
(*     DistanceRequest::enableGroup (collision_common.cpp);                *)
(*   - the construction of CollisionRobotOpenVDB and its self-distance     *)
(*     query (collision_robot_openvdb.cpp).                                *)
(***************************************************************************)
EXTENDS Integers, Sequences, FiniteSets, TLC

VARIABLES
  \* ---- narrow-phase query (collision_common.cpp) ----
  pc,                \* position of the driver of the modelled program
  kmodel,            \* the kinematic model handed to the program
  req,               \* DistanceRequest
  minimum_distance,  \* DistanceResult::minimum_distance
  distance,          \* DistanceResult::distance (the per-link map)
  collision,         \* DistanceResult::collision
  done,              \* DistanceData::done
  ret,               \* value returned by the last callback invocation
  exit,              \* the return statement the last invocation left by
  distance_info_map, \* DistanceInfoMap filled by getDistanceInfo
  sdfs_data,         \* the fields handed to distanceSelfHelper, as the robot state places them
  \* ---- CollisionRobotOpenVDB (collision_robot_openvdb.cpp) ----
  links_,            \* links with collision geometry
  acm_,              \* the default allowed collision matrix
  static_links_,     \* links fixed to the root, and their fields
  static_sdf_,
  active_links_,     \* links of the planning groups, their fields and spheres
  active_sdf_,
  active_spheres_,
  dynamic_links_,    \* the remaining links, and their fields
  dynamic_sdf_,
  dist_query_,       \* the query plan, one entry per active link
  log                \* ROS_ERROR messages, in order

queryVars == <<req, minimum_distance, distance, collision, done, ret, exit,
               distance_info_map, sdfs_data>>

robotVars == <<links_, acm_, static_links_, static_sdf_, active_links_, active_sdf_,
               active_spheres_, dynamic_links_, dynamic_sdf_, dist_query_, log>>

vars == <<pc, kmodel, queryVars, robotVars>>

(***************************************************************************)
(* Bounds.                                                                 *)
(***************************************************************************)
MaxDist == 1

(***************************************************************************)
(* Pointers: NULL or the address of one object.                            *)
(***************************************************************************)
Null == {}
Ptr(x) == {x}
Deref(p) == CHOOSE x \in p : TRUE

Max(a, b) == IF a >= b THEN a ELSE b

(***************************************************************************)
(* The scene the broad phase draws candidate pairs from: two robot links,  *)
(* a body attached to link2 (which it may touch) and a world object.       *)
(***************************************************************************)
RobotLinks == {"link1", "link2"}
AttachedBodies == {"tool"}
WorldObjects == {"box"}
Bodies == RobotLinks \cup AttachedBodies \cup WorldObjects

BodyType(o) ==
  IF o \in RobotLinks THEN "ROBOT_LINK"
  ELSE IF o \in AttachedBodies THEN "ROBOT_ATTACHED"
  ELSE "WORLD_OBJECT"

GetAttachedLink(ab) == "link2"
GetTouchLinks(ab) == {"link2"}

\* CollisionGeometryData::getID(): the name of the link, attached body or object.
GetID(o) == o

\* Mutant of SameObject: only robot links are recognised as the same object.
SameObjectLinksOnly(o1, o2) == BodyType(o1) = "ROBOT_LINK" /\ o1 = o2

\* CollisionGeometryData::sameObject(): same type and same owner.
SameObject(o1, o2) == BodyType(o1) = BodyType(o2) /\ o1 = o2

(***************************************************************************)
(* Measured distances. InfDist stands for numeric_limits<double>::max(),   *)
(* the min_distance of a cleared DistanceResultsData.  The callback writes *)
(* the nearest points and the two identifiers of an entry (lines 224-227)  *)
(* and never reads them back: an entry of the narrow-phase aggregate is    *)
(* its min_distance.                                                       *)
(***************************************************************************)
Dists == -1 .. MaxDist
InfDist == MaxDist + 2
Thresholds == {1, MaxDist + 1}

Cleared == [min_distance |-> InfDist]

\* DistanceResultsData::update(): replace the stored entry only by a strictly
\* smaller distance.
Update(entry, results) ==
  IF results.min_distance < entry.min_distance THEN results ELSE entry

(***************************************************************************)
(* AllowedCollisionMatrix: a symmetric sparse table over pairs of names.   *)
(***************************************************************************)
AcmTypes == {"NEVER", "ALWAYS", "CONDITIONAL"}
EmptyAcm == [p \in {} |-> "NEVER"]

\* AllowedCollisionMatrix::setEntry(name1, name2, type): both orders.
SetEntryType(acm, a, b, t) ==
  [p \in DOMAIN acm \cup {<<a, b>>, <<b, a>>} |->
     IF p \in {<<a, b>>, <<b, a>>} THEN t ELSE acm[p]]

\* AllowedCollisionMatrix::getAllowedCollision(name1, name2, type): found?
AcmFound(acm, a, b) == <<a, b>> \in DOMAIN acm
AcmType(acm, a, b) == acm[<<a, b>>]

(***************************************************************************)
(* Planning groups of the kinematic model.                                 *)
(***************************************************************************)
HasJointModelGroup(km, name) == name \in DOMAIN km.groups
GetJointModelGroup(km, name) ==
  IF HasJointModelGroup(km, name) THEN Ptr(km.groups[name]) ELSE Null

(***************************************************************************)
(* distanceDetailedCallback (collision_common.cpp:86-273).                 *)
(***************************************************************************)
\* l1, l2 (lines 101-102): the link owning the shape, NULL for a world object.
OwningLink(o) ==
  IF BodyType(o) = "ROBOT_LINK" THEN Ptr(o)
  ELSE IF BodyType(o) = "ROBOT_ATTACHED" THEN Ptr(GetAttachedLink(o))
  ELSE Null

\* !(!l || active_components_only->find(l) == end()) (lines 105-106, 112, 115)
InActiveSet(r, o) ==
  /\ OwningLink(o) # Null
  /\ Deref(OwningLink(o)) \in Deref(r.active_components_only)

\* lines 104-109: a group restriction is set and neither component is active
NeitherActive(r, o1, o2) ==
  /\ r.active_components_only # Null
  /\ ~InActiveSet(r, o1)
  /\ ~InActiveSet(r, o2)

\* active1 / active2 as they stand after lines 92-118
ActiveFlag(r, o) ==
  IF r.active_components_only # Null THEN InActiveSet(r, o) ELSE TRUE

\* Mutant of AcmAlways: any entry found waives the pair, whatever its type.
AcmAnyEntry(r, o1, o2) ==
  /\ r.acm # Null
  /\ AcmFound(Deref(r.acm), GetID(o1), GetID(o2))

\* lines 121-138: the collision matrix (if any) holds ALWAYS for the pair
AcmAlways(r, o1, o2) ==
  /\ r.acm # Null
  /\ AcmFound(Deref(r.acm), GetID(o1), GetID(o2))
  /\ AcmType(Deref(r.acm), GetID(o1), GetID(o2)) = "ALWAYS"

\* lines 140-165: a robot link touching an attached body that lists it
TouchLinkAllowed(o1, o2) ==
  IF BodyType(o1) = "ROBOT_LINK" /\ BodyType(o2) = "ROBOT_ATTACHED"
  THEN GetID(o1) \in GetTouchLinks(o2)
  ELSE /\ BodyType(o2) = "ROBOT_LINK"
       /\ BodyType(o1) = "ROBOT_ATTACHED"
       /\ GetID(o2) \in GetTouchLinks(o1)

\* always_allow_collision as it stands at line 167
AlwaysAllowCollision(r, o1, o2) == AcmAlways(r, o1, o2) \/ TouchLinkAllowed(o1, o2)

(***************************************************************************)
(* cd->ptr.obj->id_ (lines 183, 184, 226, 227, 242, 254) reads the union   *)
(* member `obj` whatever the type of the body.  For a world object it is   *)
(* the object's id; for a robot link the name is the first member, as id_  *)
(* is; for an attached body the read is of another layout: the pun yields  *)
(* the body's id, a string that is no name of the scene, or a string that  *)
(* cannot be copied (copying it throws).                                   *)
(***************************************************************************)
GarbageId == "<garbage>"
BadString == "<uncopyable>"
ObjId(o) ==
  IF BodyType(o) = "ROBOT_ATTACHED" THEN {GetID(o), GarbageId, BadString}
  ELSE {GetID(o)}

Keys == Bodies \cup {GarbageId}

\* lines 178-213: the bound handed to the exact-distance measurement
DistThreshold(r, min_entry, dmap, o1, o2, s1, s2) ==
  LET has1 == s1 \in DOMAIN dmap
      has2 == s2 \in DOMAIN dmap
      active1 == ActiveFlag(r, o1)
      active2 == ActiveFlag(r, o2)
  IN  IF ~r.global
      THEN IF r.active_components_only # Null
           THEN IF active1 /\ active2
                THEN IF has1 /\ has2
                     THEN Max(dmap[s1].min_distance, dmap[s2].min_distance)
                     ELSE r.distance_threshold
                ELSE IF active1 /\ ~active2
                THEN IF has1 THEN dmap[s1].min_distance ELSE r.distance_threshold
                ELSE IF ~active1 /\ active2
                THEN IF has2 THEN dmap[s2].min_distance ELSE r.distance_threshold
                ELSE r.distance_threshold
           ELSE IF has1 /\ has2
                THEN Max(dmap[s1].min_distance, dmap[s2].min_distance)
                ELSE r.distance_threshold
      ELSE min_entry.min_distance

\* Mutant of FclMinDistance: the result keeps the bound it started from.
FclKeepsBound(bound, d) == bound

\* fcl::distance (lines 215-216): fcl_result.min_distance starts at the bound
\* and is lowered to the measured distance when that is smaller.
FclMinDistance(bound, d) == IF d < bound THEN d ELSE bound

\* Mutant of Closer: a distance equal to the bound is folded in.
CloserOrEqual(d, dist_threshold) == d <= dist_threshold

\* line 221
Closer(d, dist_threshold) == d < dist_threshold

\* std::map::insert: no effect on a key already present
MapInsert(dmap, key, entry) ==
  IF key \in DOMAIN dmap THEN dmap
  ELSE [k \in DOMAIN dmap \cup {key} |-> IF k = key THEN entry ELSE dmap[k]]

\* Mutant of UpdateLinkEntry: an existing entry is overwritten.
OverwriteLinkEntry(dmap, active, has, key, dist_result) ==
  IF active
  THEN [k \in DOMAIN dmap \cup {key} |-> IF k = key THEN dist_result ELSE dmap[k]]
  ELSE dmap

\* lines 238-248 and 250-260: the per-link entry of one side; `has` is the
\* iterator test made at lines 183-184, before any insertion
UpdateLinkEntry(dmap, active, has, key, dist_result) ==
  IF active
  THEN IF ~has
       THEN MapInsert(dmap, key, dist_result)
       ELSE [dmap EXCEPT ![key] = Update(dmap[key], dist_result)]
  ELSE dmap

\* Mutant of CollisionFlag: the flag is assigned the test of this pair.
CollisionFlagAssigned(flag, d) == d <= 0

\* lines 233-236 (per-link mode) and 264-266 (global mode)
CollisionFlag(flag, d) == IF d <= 0 THEN TRUE ELSE flag

\* lines 264-268
DoneFlag(flag, d) == IF d <= 0 THEN TRUE ELSE flag

Outcome(md, dm, c, dn, rt, ex) ==
  [minimum_distance |-> md, distance |-> dm, collision |-> c, done |-> dn,
   ret |-> rt, exit |-> ex]

\* lines 221-272: the measurement folded into the aggregate
Fold(r, min_entry, dmap, c, dn, o1, o2, d, s1, s2, bound) ==
  IF BadString \in {s1, s2}
  THEN \* lines 226-227: the copy of the identifier throws
       Outcome(min_entry, dmap, c, dn, FALSE, "threw")
  ELSE
    LET dist_result == [min_distance |-> FclMinDistance(bound, d)]
        has1 == s1 \in DOMAIN dmap
        has2 == s2 \in DOMAIN dmap
        m1 == UpdateLinkEntry(dmap, ActiveFlag(r, o1), has1, s1, dist_result)
        m2 == UpdateLinkEntry(m1, ActiveFlag(r, o2), has2, s2, dist_result)
        md == Update(min_entry, dist_result)
    IN  IF ~r.global
        THEN Outcome(md, m2, CollisionFlag(c, d), dn, dn, "folded")
        ELSE Outcome(md, dmap, CollisionFlag(c, d), DoneFlag(dn, d),
                     DoneFlag(dn, d), "folded")

\* The whole callback: the aggregate, the returned value and the return
\* statement taken, for the pair (o1, o2), the distance d the measurement
\* would yield and the outcomes s1, s2 of reading the two identifiers.
Callback(r, min_entry, dmap, c, dn, o1, o2, d, s1, s2) ==
  IF SameObject(o1, o2)
  THEN Outcome(min_entry, dmap, c, dn, FALSE, "same_object")
  ELSE IF NeitherActive(r, o1, o2)
  THEN Outcome(min_entry, dmap, c, dn, FALSE, "inactive")
  ELSE IF AlwaysAllowCollision(r, o1, o2)
  THEN Outcome(min_entry, dmap, c, dn, FALSE, "always_allowed")
  ELSE LET bound == DistThreshold(r, min_entry, dmap, o1, o2, s1, s2)
       IN  IF Closer(d, bound)
           THEN Fold(r, min_entry, dmap, c, dn, o1, o2, d, s1, s2, bound)
           ELSE Outcome(min_entry, dmap, c, dn, dn, "not_closer")

\* the return statements that come after the call of fcl::distance (line 216)
MeasuredExits == {"not_closer", "folded", "threw"}

(***************************************************************************)
(* The narrow-phase query: a request is made, enableGroup resolves its     *)
(* group, and the broad phase hands candidate pairs to the callback.       *)
(***************************************************************************)
\* The kinematic model of the scene: its groups and, for each, the links
\* with geometry that the group moves.
SceneModel ==
  [groups |-> [arm   |-> [updated |-> {"link1", "link2"}],
               wrist |-> [updated |-> {"link2"}],
               rail  |-> [updated |-> {}]]]

GroupNames == {"arm", "wrist", "rail", "nogroup"}

\* no CollisionRobotOpenVDB takes part in a narrow-phase query
NoRobot ==
  /\ links_ = <<>>
  /\ acm_ = Null
  /\ static_links_ = <<>>
  /\ static_sdf_ = <<>>
  /\ active_links_ = <<>>
  /\ active_sdf_ = <<>>
  /\ active_spheres_ = <<>>
  /\ dynamic_links_ = <<>>
  /\ dynamic_sdf_ = <<>>
  /\ dist_query_ = <<>>
  /\ log = <<>>

\* Collision matrices of a request: none, or one with an entry for the pair
\* (link1, box); every other pair has no entry
AcmChoices ==
  {Null} \cup
  {Ptr(SetEntryType(EmptyAcm, "link1", "box", t)) : t \in {"ALWAYS", "CONDITIONAL"}}

InitQuery ==
  /\ pc = "request"
  /\ kmodel = SceneModel
  /\ req \in [group_name : GroupNames,
              global : BOOLEAN,
              distance_threshold : Thresholds,
              acm : AcmChoices,
              active_components_only : {Null}]
  /\ minimum_distance = Cleared
  /\ distance = [k \in {} |-> Cleared]
  /\ collision = FALSE
  /\ done = FALSE
  /\ ret = FALSE
  /\ exit = "none"
  /\ distance_info_map = <<>>
  /\ sdfs_data = <<>>
  /\ NoRobot

\* DistanceRequest::enableGroup (collision_common.cpp:78-84)
ActiveComponentsOnly(km, group_name) ==
  IF HasJointModelGroup(km, group_name)
  THEN Ptr(Deref(GetJointModelGroup(km, group_name)).updated)
  ELSE Null

EnableGroup ==
  /\ pc = "request"
  /\ req' = [req EXCEPT !.active_components_only =
                          ActiveComponentsOnly(kmodel, req.group_name)]
  /\ pc' = "query"
  /\ UNCHANGED <<kmodel, minimum_distance, distance, collision, done, ret, exit,
                 distance_info_map, sdfs_data>>
  /\ UNCHANGED robotVars

\* the callback invoked on the aggregate as it stands
Invoke(o1, o2, d, s1, s2) ==
  Callback(req, minimum_distance, distance, collision, done, o1, o2, d, s1, s2)

DistanceDetailedCallback(o1, o2, d, s1, s2) ==
  /\ pc = "query"
  /\ \E out \in {Invoke(o1, o2, d, s1, s2)} :
       /\ minimum_distance' = out.minimum_distance
       /\ distance' = out.distance
       /\ collision' = out.collision
       /\ done' = out.done
       /\ ret' = out.ret
       /\ exit' = out.exit
       /\ pc' = IF out.exit = "threw" THEN "aborted" ELSE "query"
  /\ UNCHANGED <<kmodel, req, distance_info_map, sdfs_data>>
  /\ UNCHANGED robotVars

\* lines 95-170: the pair is dismissed before anything is measured and
\* before an identifier is read
Dismissed(r, o1, o2) ==
  \/ SameObject(o1, o2)
  \/ NeitherActive(r, o1, o2)
  \/ AlwaysAllowCollision(r, o1, o2)

\* what the measurement and the reads of the two identifiers can yield for
\* a pair; for a dismissed pair there is neither
Measurements(o1, o2) ==
  IF Dismissed(req, o1, o2)
  THEN {<<0, GetID(o1), GetID(o2)>>}
  ELSE Dists \X ObjId(o1) \X ObjId(o2)

CandidatePair ==
  \E o1 \in Bodies, o2 \in Bodies :
    \E m \in Measurements(o1, o2) :
      DistanceDetailedCallback(o1, o2, m[1], m[2], m[3])

NextQuery == EnableGroup \/ CandidatePair

SpecQuery == InitQuery /\ [][NextQuery]_vars

(***************************************************************************)
(* Properties of the narrow-phase query.                                   *)
(***************************************************************************)
\* an outcome that leaves the aggregate as it stands
Untouched(out) ==
  /\ out.minimum_distance = minimum_distance
  /\ out.distance = distance
  /\ out.collision = collision
  /\ out.done = done

\* C2: within one query the stored minimum distance of the global entry and
\* of every per-link entry never increases: each step leaves an entry as it
\* is or replaces it by a strictly smaller distance, and no entry is removed.
C2_EntriesNeverIncrease ==
  [][ /\ \/ minimum_distance' = minimum_distance
         \/ minimum_distance'.min_distance < minimum_distance.min_distance
      /\ DOMAIN distance \subseteq DOMAIN distance'
      /\ \A k \in DOMAIN distance :
           \/ distance'[k] = distance[k]
           \/ distance'[k].min_distance < distance[k].min_distance ]_vars

\* C2 witness: a per-link entry has been refined below another one, and the
\* global minimum below the request's threshold.
C2_Witness ==
  /\ exit = "folded"
  /\ \E k1 \in DOMAIN distance, k2 \in DOMAIN distance :
       distance[k1].min_distance < distance[k2].min_distance
  /\ minimum_distance.min_distance < req.distance_threshold

\* C3 (as claimed): in global-only mode, once the done flag is set every
\* invocation returns the stop signal.
C3_DoneAlwaysStops == (req.global /\ done) => ret

\* C4: a measured distance greater than or equal to the bound handed to the
\* measurement changes nothing in the aggregate, in either mode.
C4_NoFoldAtOrAboveBound ==
  pc = "query" =>
    \A o1 \in Bodies, o2 \in Bodies, d \in Dists :
      \A s1 \in ObjId(o1), s2 \in ObjId(o2) :
        LET out == Invoke(o1, o2, d, s1, s2)
            bound == DistThreshold(req, minimum_distance, distance, o1, o2, s1, s2)
        IN  (out.exit \in MeasuredExits /\ d >= bound) => Untouched(out)

\* C4 witness: an invocation measured a pair and found it no closer than the
\* bound, with entries already stored.
C4_Witness ==
  /\ exit = "not_closer"
  /\ minimum_distance.min_distance < InfDist

\* C5: two shapes of the same object are never measured and leave the whole
\* aggregate unchanged, whatever the request.
C5_SameObjectNeverMeasured ==
  pc = "query" =>
    \A o \in Bodies, d \in Dists :
      \A s1 \in ObjId(o), s2 \in ObjId(o) :
        LET out == Invoke(o, o, d, s1, s2)
        IN  out.exit \notin MeasuredExits /\ Untouched(out)

\* C5 witness: a same-object pair was rejected during a query that already
\* holds results.
C5_Witness ==
  /\ exit = "same_object"
  /\ minimum_distance.min_distance < InfDist

\* the request's collision matrix holds ALWAYS for the pair's identifiers
HasAlwaysEntry(o1, o2) ==
  /\ req.acm # Null
  /\ <<GetID(o1), GetID(o2)>> \in DOMAIN Deref(req.acm)
  /\ Deref(req.acm)[<<GetID(o1), GetID(o2)>>] = "ALWAYS"

\* C6: a pair whose collision-matrix entry is ALWAYS is rejected without a
\* measurement and without a change of the aggregate; a pair with no entry
\* or an entry of another type, that no other rule rejects, is measured.
C6_AlwaysEntryWaives ==
  pc = "query" =>
    \A o1 \in Bodies, o2 \in Bodies, d \in Dists :
      \A s1 \in ObjId(o1), s2 \in ObjId(o2) :
        LET out == Invoke(o1, o2, d, s1, s2)
        IN  /\ HasAlwaysEntry(o1, o2) =>
                 (out.exit \notin MeasuredExits /\ ~out.ret /\ Untouched(out))
            /\ ( /\ ~HasAlwaysEntry(o1, o2)
                 /\ o1 # o2
                 /\ ~NeitherActive(req, o1, o2)
                 /\ ~TouchLinkAllowed(o1, o2) ) => out.exit \in MeasuredExits

\* C6 witness: a pair was waived in a query whose matrix holds an ALWAYS
\* entry, after other pairs were measured.
C6_Witness ==
  /\ exit = "always_allowed"
  /\ req.acm # Null
  /\ \E p \in DOMAIN Deref(req.acm) : Deref(req.acm)[p] = "ALWAYS"
  /\ minimum_distance.min_distance < InfDist

\* C7: an invocation that folds in a distance <= 0 sets the collision flag,
\* no invocation clears it, a distance > 0 leaves it as it is, and it is
\* only ever true when a distance <= 0 has been folded in.
C7_CollisionFlagSticks ==
  /\ collision => minimum_distance.min_distance <= 0
  /\ pc = "query" =>
       \A o1 \in Bodies, o2 \in Bodies, d \in Dists :
         \A s1 \in ObjId(o1), s2 \in ObjId(o2) :
           LET out == Invoke(o1, o2, d, s1, s2)
           IN  /\ collision => out.collision
               /\ (out.exit = "folded" /\ d <= 0) => out.collision
               /\ d > 0 => (out.collision = collision)

\* C7 witness: the flag is set and a later, positive distance was folded in.
C7_Witness ==
  /\ collision
  /\ exit = "folded"
  /\ \E k \in DOMAIN distance : distance[k].min_distance > 0

(***************************************************************************)
(* CollisionRobotOpenVDB (collision_robot_openvdb.cpp).                    *)
(*                                                                         *)
(* The kinematic model of a robot: links 1 .. NumLinks, link 1 the root;   *)
(* parent[l] < l is the parent of link l and fixed[l] says that the joint  *)
(* between them is fixed; geom is the set of links with collision          *)
(* geometry; groups is the sequence of planning groups, each the set of    *)
(* its links; disabled is the list of disabled collision pairs of the      *)
(* SRDF; fit[l][j] is the sphere model that fitting link l yields at the   *)
(* j-th voxel size.  A link's name is its number.                          *)
(***************************************************************************)
NumLinks == 3
NumGroups == 2
MaxDisabled == 2

LinkIds == 1 .. NumLinks
RootLink == 1

Range(seq) == {seq[i] : i \in DOMAIN seq}

\* the elements of a set of numbers in ascending order
RECURSIVE Ascending(_)
Ascending(S) ==
  IF S = {} THEN <<>>
  ELSE LET least == CHOOSE x \in S : \A y \in S : x <= y
       IN  <<least>> \o Ascending(S \ {least})

\* RobotModel::getLinkModelsWithCollisionGeometry()
GetLinkModelsWithCollisionGeometry(km) == Ascending(km.geom)

\* a is joined to its descendant l by fixed joints only
RECURSIVE FixedAncestor(_, _, _)
FixedAncestor(km, a, l) ==
  /\ l # RootLink
  /\ km.fixed[l]
  /\ \/ km.parent[l] = a
     \/ FixedAncestor(km, a, km.parent[l])

\* LinkModel::getAssociatedFixedTransforms(): the links rigidly joined to
\* the link, above and below it, the link itself excluded
GetAssociatedFixedTransforms(km, link) ==
  {m \in LinkIds \ {link} : FixedAncestor(km, m, link) \/ FixedAncestor(km, link, m)}

\* a distance field built from a link's geometry; the voxel size is
\* voxel_size_ halved `halvings` times
Field(link, halvings) == [link |-> link, halvings |-> halvings]

(***************************************************************************)
(* createStaticSDFs (lines 51-67), addAssociatedFixedTransforms (152-177). *)
(* The walk carries static_links_, static_sdf_ and links_so_far.           *)
(***************************************************************************)
\* lines 164-172: the link joins links_so_far, and the static set when it
\* has collision geometry
VisitFixed(lks, walk, link) ==
  [links_so_far |-> Append(walk.links_so_far, link),
   static_links_ |-> IF link \in Range(lks)
                     THEN Append(walk.static_links_, link)
                     ELSE walk.static_links_,
   static_sdf_ |-> IF link \in Range(lks)
                   THEN Append(walk.static_sdf_, Field(link, 0))
                   ELSE walk.static_sdf_]

RECURSIVE AddAssociatedFixedTransforms(_, _, _, _), WalkFixedAttached(_, _, _, _)
\* lines 159-176: the loop over fixed_attached, in the order of the map
WalkFixedAttached(km, lks, todo, walk) ==
  IF todo = <<>> THEN walk
  ELSE LET it == Head(todo)
       IN  IF it \notin Range(walk.links_so_far)
           THEN WalkFixedAttached(km, lks, Tail(todo),
                  AddAssociatedFixedTransforms(km, lks, it, VisitFixed(lks, walk, it)))
           ELSE WalkFixedAttached(km, lks, Tail(todo), walk)

AddAssociatedFixedTransforms(km, lks, link, walk) ==
  WalkFixedAttached(km, lks, Ascending(GetAssociatedFixedTransforms(km, link)), walk)

\* lines 53-66
StaticWalk(km, lks) ==
  LET start == [links_so_far |-> <<>>,
                static_links_ |-> IF RootLink \in Range(lks) THEN <<RootLink>> ELSE <<>>,
                static_sdf_ |-> IF RootLink \in Range(lks)
                                THEN <<Field(RootLink, 0)>> ELSE <<>>]
  IN  AddAssociatedFixedTransforms(km, lks, RootLink, start)

(***************************************************************************)
(* createActiveSDFs (lines 69-123).                                        *)
(***************************************************************************)
\* lines 75-83: the links of one group
RECURSIVE AddGroupLinks(_, _, _)
AddGroupLinks(lks, links, active) ==
  IF links = <<>> THEN active
  ELSE AddGroupLinks(lks, Tail(links),
         IF Head(links) \notin Range(active) /\ Head(links) \in Range(lks)
         THEN Append(active, Head(links))
         ELSE active)

\* lines 71-84: all groups
RECURSIVE CollectActiveLinks(_, _, _)
CollectActiveLinks(lks, groups, active) ==
  IF groups = <<>> THEN active
  ELSE CollectActiveLinks(lks, Tail(groups),
         AddGroupLinks(lks, Ascending(Head(groups).links), active))

\* Sphere models: a sphere is a centre (a point of the link's frame) and a
\* radius.
MaxAttempts == 10
Sphere(c, r) == [center |-> c, radius |-> r]
NoSpheres == <<>>
OneSphere == <<Sphere(1, 1)>>
TwoSpheres == <<Sphere(1, 1), Sphere(2, 0)>>
SphereModels == {NoSpheres, OneSphere, TwoSpheres}

\* OpenVDBDistanceField::fillWithSpheres: the sphere model fitted to the
\* field replaces the one passed in
FillWithSpheres(spheres, fitted) == fitted

\* line 110
EnoughSpheres(spheres) == Len(spheres) > 1

\* lines 94-114: the attempts j, j + 1, ... on one link; yields the spheres,
\* the field and the number of attempts made
RECURSIVE FitLoop(_, _, _, _)
FitLoop(km, link, j, spheres) ==
  IF j >= MaxAttempts
  THEN [spheres |-> spheres, sdf |-> Field(link, j - 1), attempts |-> j]
  ELSE LET filled == FillWithSpheres(spheres, km.fit[link][j + 1])
       IN  IF EnoughSpheres(filled)
           THEN [spheres |-> filled, sdf |-> Field(link, j), attempts |-> j + 1]
           ELSE FitLoop(km, link, j + 1, filled)

\* lines 116-119
FitFailed(spheres) == Len(spheres) = 0

(***************************************************************************)
(* createDynamicSDFs (lines 125-150).                                      *)
(* v.erase(std::remove(v.begin(), v.end(), x)) erases one element at the   *)
(* iterator std::remove returns.  When x is in v (once) that is x.  When   *)
(* x is not in v the iterator is v.end() and erasing it is undefined: the  *)
(* build either faults or shortens the vector by its last element; on an   *)
(* empty vector the size underflows and the resize of line 141 throws.     *)
(***************************************************************************)
Crashed == [ok |-> FALSE, links |-> <<>>]
Vec(seq) == [ok |-> TRUE, links |-> seq]

RECURSIVE RemoveFirst(_, _)
RemoveFirst(seq, x) ==
  IF seq = <<>> THEN <<>>
  ELSE IF Head(seq) = x THEN Tail(seq)
  ELSE <<Head(seq)>> \o RemoveFirst(Tail(seq), x)

\* the outcomes of one erase(remove(...)) on the vector v
EraseRemove(v, x) ==
  IF ~v.ok THEN {Crashed}
  ELSE IF x \in Range(v.links) THEN {Vec(RemoveFirst(v.links, x))}
  ELSE IF v.links = <<>> THEN {Crashed}
  ELSE {Crashed, Vec(SubSeq(v.links, 1, Len(v.links) - 1))}

\* lines 130-133 and 136-139: one loop over the links to remove
RECURSIVE EraseAll(_, _)
EraseAll(vs, remove) ==
  IF remove = <<>> THEN vs
  ELSE EraseAll(UNION {EraseRemove(v, Head(remove)) : v \in vs}, Tail(remove))

\* lines 127-139
DynamicLinkOutcomes(lks, static, active) ==
  EraseAll(EraseAll({Vec(lks)}, static), active)

(***************************************************************************)
(* isCollisionAllowed (487-502), createDefaultAllowedCollisionMatrix       *)
(* (504-515).                                                              *)
(***************************************************************************)
\* Mutant of IsCollisionAllowed: any entry found allows the collision.
IsCollisionAllowedAnyEntry(l1, l2, acm) ==
  /\ acm # Null
  /\ AcmFound(Deref(acm), l1, l2)

IsCollisionAllowed(l1, l2, acm) ==
  IF acm # Null /\ AcmFound(Deref(acm), l1, l2)
  THEN AcmType(Deref(acm), l1, l2) = "ALWAYS"
  ELSE FALSE

\* AllowedCollisionMatrix::setEntry(name1, name2, bool)
SetEntry(acm, a, b, allowed) ==
  SetEntryType(acm, a, b, IF allowed THEN "ALWAYS" ELSE "NEVER")

\* AllowedCollisionMatrix::setEntry(names1, names2, bool): every pair
RECURSIVE SetEntries(_, _, _)
SetEntries(acm, pairs, allowed) ==
  IF pairs = <<>> THEN acm
  ELSE SetEntries(SetEntry(acm, Head(pairs)[1], Head(pairs)[2], allowed),
                  Tail(pairs), allowed)

\* all pairs of two lists of names, in order
AllPairs(names1, names2) ==
  [k \in 1 .. (Len(names1) * Len(names2)) |->
     <<names1[((k - 1) \div Len(names2)) + 1], names2[((k - 1) % Len(names2)) + 1]>>]

\* lines 506-514
DefaultAllowedCollisionMatrix(km) ==
  LET collision_links == Ascending(km.geom)
      seeded == SetEntries(EmptyAcm, AllPairs(collision_links, collision_links), FALSE)
  IN  SetEntries(seeded, km.disabled, TRUE)

(***************************************************************************)
(* createDefaultDistanceQuery (lines 364-415).  child_index counts from 1  *)
(* here, from 0 in the code.                                               *)
(***************************************************************************)
\* DistanceQueryData::DistanceQueryData(): an empty plan
DefaultQueryData ==
  [parent_name |-> 0, empty |-> TRUE, child_name |-> <<>>, child_index |-> <<>>,
   child_type |-> <<>>, spheres |-> <<>>]

\* one push_back of lines 385-387, 396-398, 407-409
AddChild(data, name, index, type) ==
  [data EXCEPT !.child_name = Append(@, name),
               !.child_index = Append(@, index),
               !.child_type = Append(@, type)]

\* the loops of lines 381-389 (skip = j), 392-400 and 403-411 (skip = 0),
\* from index i on
RECURSIVE AddChildren(_, _, _, _, _, _, _)
AddChildren(data, links, type, parent, skip, acm, i) ==
  IF i > Len(links) THEN data
  ELSE AddChildren(
         IF i # skip /\ ~IsCollisionAllowed(links[i], parent, acm)
         THEN AddChild(data, links[i], i, type)
         ELSE data,
         links, type, parent, skip, acm, i + 1)

\* lines 369-413: the plan of active link j
QueryData(j, active, dynamic, static, spheres, acm) ==
  LET data == [DefaultQueryData EXCEPT !.parent_name = active[j]]
  IN  IF Len(spheres[j]) = 0 THEN data
      ELSE AddChildren(
             AddChildren(
               AddChildren([data EXCEPT !.empty = FALSE],
                           active, "Active", active[j], j, acm, 1),
               dynamic, "Dynamic", active[j], 0, acm, 1),
             static, "Static", active[j], 0, acm, 1)

(***************************************************************************)
(* distanceSelfHelper (lines 523-597) and distanceSelf (417-485).          *)
(* A query reads the fields at the world positions of the sphere centres:  *)
(* sample[<<l, p>>] is the value the field of link l holds at the cell of  *)
(* world point p, for the robot state of the query.  The gradient (lines   *)
(* 566-596) is vector arithmetic on the field and is not modelled.         *)
(***************************************************************************)
Background == 2
GridValues == 0 .. Background
Points == {1, 2}
MaxHits == 2

\* the fields of a robot state: background everywhere but at MaxHits cells
Samples ==
  {f \in [LinkIds \X Points -> GridValues] :
     Cardinality({a \in LinkIds \X Points : f[a] # Background}) <= MaxHits}

\* Mutant of ApproxEqual: no value counts as the background.
NoSentinel(a, b) == FALSE

\* line 545: approxEqual(child_dist, background_)
ApproxEqual(a, b) == a = b

\* a default-constructed DistanceResultsData, as line 468 and
\* std::map::operator[] (line 484) make it; 0 is the empty name
NoName == 0
NewResultsData == [min_distance |-> InfDist, link_name |-> <<NoName, NoName>>]

\* lines 540-555: the spheres j, j + 1, ... against one child field
RECURSIVE SphereLoop(_, _, _, _, _)
SphereLoop(sample, child, spheres, j, acc) ==
  IF j > Len(spheres) THEN acc
  ELSE LET child_dist == sample[<<child, spheres[j].center>>]
           shrunk == child_dist - spheres[j].radius
       IN  SphereLoop(sample, child, spheres, j + 1,
             IF ~ApproxEqual(child_dist, Background) /\ shrunk < acc.child_min
             THEN [child_min |-> shrunk, dist_found |-> TRUE]
             ELSE acc)

\* line 538: the field of the planned child
ChildField(sdfs, type, index) ==
  IF type = "Static" THEN sdfs.static[index]
  ELSE IF type = "Dynamic" THEN sdfs.dynamic[index]
  ELSE sdfs.active[index]

\* lines 533-583: the children i, i + 1, ... of the plan
RECURSIVE ChildLoop(_, _, _, _, _)
ChildLoop(data, sdfs, sample, i, res) ==
  IF i > Len(data.child_index) THEN res
  ELSE LET field == ChildField(sdfs, data.child_type[i], data.child_index[i])
           found == SphereLoop(sample, field.link, data.spheres, 1,
                               [child_min |-> Background, dist_found |-> FALSE])
       IN  ChildLoop(data, sdfs, sample, i + 1,
             IF found.dist_found /\ found.child_min < res.min_distance
             THEN [res EXCEPT !.min_distance = found.child_min,
                              !.link_name[2] = data.child_name[i]]
             ELSE res)

\* lines 525-583
DistanceSelfHelper(data, sdfs, sample) ==
  ChildLoop(data, sdfs, sample, 1,
            [NewResultsData EXCEPT !.min_distance = Background,
                                   !.link_name[1] = data.parent_name])

\* lines 464-472: the plans i, i + 1, ...
RECURSIVE QueryLoop(_, _, _, _, _)
QueryLoop(dist_query, sdfs, sample, i, dmap) ==
  IF i > Len(dist_query) THEN dmap
  ELSE QueryLoop(dist_query, sdfs, sample, i + 1,
         IF ~dist_query[i].empty
         THEN LET d == DistanceSelfHelper(dist_query[i], sdfs, sample)
              IN  MapInsert(dmap, d.link_name[1], d)
         ELSE dmap)

\* lines 476-483: the scan for the smallest entry, over the keys in order
RECURSIVE MinScan(_, _, _, _)
MinScan(dmap, keys, index, d) ==
  IF keys = <<>> THEN index
  ELSE IF dmap[Head(keys)].min_distance < d
  THEN MinScan(dmap, Tail(keys), dmap[Head(keys)].link_name[1],
               dmap[Head(keys)].min_distance)
  ELSE MinScan(dmap, Tail(keys), index, d)

\* std::map::operator[]: a missing key is inserted with a default value
MapIndex(dmap, key) == MapInsert(dmap, key, NewResultsData)

\* a name read from memory that holds no entry
GarbageName == -1

\* lines 474-484.  On an empty map, line 475 reads the first element of an
\* empty container: the build faults (no name is read) or reads a stray name.
SelectMinimum(dmap) ==
  LET keys == Ascending(DOMAIN dmap)
      firsts == IF keys = <<>> THEN {Null, Ptr(GarbageName)}
                ELSE {Ptr(dmap[keys[1]].link_name[1])}
  IN  {IF first = Null
       THEN [ok |-> FALSE, distance |-> dmap, minimum_distance |-> NewResultsData]
       ELSE LET index == MinScan(dmap, keys, Deref(first), Background)
                indexed == MapIndex(dmap, index)
            IN  [ok |-> TRUE, distance |-> indexed, minimum_distance |-> indexed[index]]
       : first \in firsts}

\* lines 430-446: the plans of the query carry the sphere models.  The
\* sphere centres are taken to the world frame by the link's transform; the
\* sample function is indexed by the world point, so the centre stands for
\* it.
PlansOf(dist_query, spheres) ==
  [i \in DOMAIN dist_query |->
     IF i \in DOMAIN spheres
     THEN [dist_query[i] EXCEPT !.spheres = spheres[i]]
     ELSE dist_query[i]]

\* lines 427-428.  A missing group is a null pointer, and line 428 calls a
\* member function through it: the build faults or carries on (the result
\* of the call is never used).
GroupLookup(km, group_name) ==
  IF HasJointModelGroup(km, group_name) THEN {"found"} ELSE {"fault", "carried_on"}

(***************************************************************************)
(* The kinematic models the engine is constructed on.                      *)
(***************************************************************************)
KinematicModel(parent, fixed, geom, groups, disabled, fit) ==
  [parent |-> parent, fixed |-> fixed, geom |-> geom, groups |-> groups,
   disabled |-> disabled, fit |-> fit]

\* every tree over the links, rooted in RootLink
Trees ==
  {p \in [LinkIds -> 0 .. NumLinks] :
     /\ p[RootLink] = 0
     /\ \A l \in LinkIds \ {RootLink} : p[l] \in 1 .. (l - 1)}
Chain == [l \in LinkIds |-> l - 1]

\* which joints are fixed; the root has no joint to a parent
FixedChoices == {f \in [LinkIds -> BOOLEAN] : ~f[RootLink]}
NoneFixed == [l \in LinkIds |-> FALSE]

RECURSIVE Below(_, _, _)
Below(p, a, l) == l # RootLink /\ (p[l] = a \/ Below(p, a, p[l]))

\* a planning group: a link and all that hangs below it
Subtree(p, l) == [links |-> {m \in LinkIds : m = l \/ Below(p, l, m)}]
GroupSeqs(p) ==
  UNION {[1 .. n -> {Subtree(p, l) : l \in LinkIds}] : n \in 0 .. NumGroups}

\* the SRDF's list of disabled pairs
DisabledSeqs == UNION {[1 .. n -> LinkIds \X LinkIds] : n \in 0 .. MaxDisabled}

\* sphere fitting: every attempt yields two spheres
GoodFit == [l \in LinkIds |-> [j \in 1 .. MaxAttempts |-> TwoSpheres]]
\* sphere fitting that yields one model up to some attempt and another after
FitOracles ==
  {[j \in 1 .. MaxAttempts |-> IF j < k THEN pre ELSE post] :
     k \in 1 .. MaxAttempts, pre \in SphereModels, post \in SphereModels}

\* the model is any tree, with any fixed joints, geometry and groups
RoleModel ==
  \E p \in Trees, f \in FixedChoices, g \in SUBSET LinkIds :
    \E gs \in GroupSeqs(p) :
      kmodel = KinematicModel(p, f, g, gs, <<>>, GoodFit)
\* the model is a chain of moving links with any list of disabled pairs
MatrixModel ==
  \E g \in {LinkIds, LinkIds \ {NumLinks}}, dc \in DisabledSeqs :
    kmodel = KinematicModel(Chain, NoneFixed, g, <<Subtree(Chain, 2)>>, dc, GoodFit)
\* the model is a chain of moving links, link 2 hard to fit; all links
\* carry geometry, or the root and link 2 alone
FitModel ==
  \E o \in FitOracles, g \in {LinkIds, {RootLink, 2}} :
    kmodel = KinematicModel(Chain, NoneFixed, g, <<Subtree(Chain, 2)>>, <<>>,
                            [GoodFit EXCEPT ![2] = o])

(***************************************************************************)
(* Construction of a CollisionRobotOpenVDB and a distanceSelf query on it. *)
(***************************************************************************)
NoResult == [k \in {} |-> NewResultsData]

InitRobot ==
  /\ pc = "createDefaultAllowedCollisionMatrix"
  /\ (RoleModel \/ MatrixModel \/ FitModel)
  /\ links_ = GetLinkModelsWithCollisionGeometry(kmodel)
  /\ acm_ = Null
  /\ static_links_ = <<>>
  /\ static_sdf_ = <<>>
  /\ active_links_ = <<>>
  /\ active_sdf_ = <<>>
  /\ active_spheres_ = <<>>
  /\ dynamic_links_ = <<>>
  /\ dynamic_sdf_ = <<>>
  /\ dist_query_ = <<>>
  /\ log = <<>>
  /\ req = [group_name |-> NoName]
  /\ minimum_distance = NewResultsData
  /\ distance = NoResult
  /\ collision = FALSE
  /\ done = FALSE
  /\ ret = FALSE
  /\ exit = "none"
  /\ distance_info_map = <<>>
  /\ sdfs_data = <<>>

CreateDefaultAllowedCollisionMatrix ==
  /\ pc = "createDefaultAllowedCollisionMatrix"
  /\ acm_' = Ptr(DefaultAllowedCollisionMatrix(kmodel))
  /\ pc' = "createStaticSDFs"
  /\ UNCHANGED <<kmodel, queryVars, links_, static_links_, static_sdf_, active_links_,
                 active_sdf_, active_spheres_, dynamic_links_, dynamic_sdf_,
                 dist_query_, log>>

CreateStaticSDFs ==
  /\ pc = "createStaticSDFs"
  /\ LET walk == StaticWalk(kmodel, links_)
     IN  /\ static_links_' = walk.static_links_
         /\ static_sdf_' = walk.static_sdf_
  /\ pc' = "createActiveSDFs"
  /\ UNCHANGED <<kmodel, queryVars, links_, acm_, active_links_, active_sdf_,
                 active_spheres_, dynamic_links_, dynamic_sdf_, dist_query_, log>>

CreateActiveSDFs ==
  /\ pc = "createActiveSDFs"
  /\ LET active == CollectActiveLinks(links_, kmodel.groups, <<>>)
         fit == [i \in DOMAIN active |-> FitLoop(kmodel, active[i], 0, NoSpheres)]
     IN  /\ active_links_' = active
         /\ active_spheres_' = [i \in DOMAIN active |-> fit[i].spheres]
         /\ active_sdf_' = [i \in DOMAIN active |-> fit[i].sdf]
         /\ log' = log \o SelectSeq(active,
                      LAMBDA l : FitFailed(FitLoop(kmodel, l, 0, NoSpheres).spheres))
  /\ pc' = "createDynamicSDFs"
  /\ UNCHANGED <<kmodel, queryVars, links_, acm_, static_links_, static_sdf_,
                 dynamic_links_, dynamic_sdf_, dist_query_>>

CreateDynamicSDFs ==
  /\ pc = "createDynamicSDFs"
  /\ \E out \in DynamicLinkOutcomes(links_, static_links_, active_links_) :
       IF out.ok
       THEN /\ dynamic_links_' = out.links
            /\ dynamic_sdf_' = [i \in DOMAIN out.links |-> Field(out.links[i], 0)]
            /\ pc' = "createDefaultDistanceQuery"
       ELSE /\ UNCHANGED <<dynamic_links_, dynamic_sdf_>>
            /\ pc' = "crashed"
  /\ UNCHANGED <<kmodel, queryVars, links_, acm_, static_links_, static_sdf_,
                 active_links_, active_sdf_, active_spheres_, dist_query_, log>>

CreateDefaultDistanceQuery ==
  /\ pc = "createDefaultDistanceQuery"
  /\ dist_query_' = [j \in DOMAIN active_links_ |->
                       QueryData(j, active_links_, dynamic_links_, static_links_,
                                 active_spheres_, acm_)]
  /\ pc' = "constructed"
  /\ UNCHANGED <<kmodel, queryVars, links_, acm_, static_links_, static_sdf_,
                 active_links_, active_sdf_, active_spheres_, dynamic_links_,
                 dynamic_sdf_, log>>

\* distanceSelf(req, res, state) with a fresh result
DistanceSelf(group_name, sample) ==
  /\ pc = "constructed"
  /\ req' = [group_name |-> group_name]
  /\ \E looked \in GroupLookup(kmodel, group_name) :
       IF looked = "fault"
       THEN /\ pc' = "faulted"
            /\ UNCHANGED <<distance, minimum_distance>>
       ELSE LET sdfs == [static |-> static_sdf_, dynamic |-> dynamic_sdf_,
                         active |-> active_sdf_]
                dmap == QueryLoop(PlansOf(dist_query_, active_spheres_), sdfs,
                                  sample, 1, NoResult)
            IN  \E out \in SelectMinimum(dmap) :
                  /\ distance' = out.distance
                  /\ minimum_distance' = out.minimum_distance
                  /\ pc' = IF out.ok THEN "queried" ELSE "faulted"
  /\ UNCHANGED <<kmodel, collision, done, ret, exit, distance_info_map, sdfs_data>>
  /\ UNCHANGED robotVars

Query ==
  \E group_name \in 1 .. (NumGroups + 1), sample \in Samples :
    DistanceSelf(group_name, sample)

\* the constructor alone (lines 20-24)
NextConstruct ==
  \/ CreateDefaultAllowedCollisionMatrix
  \/ CreateStaticSDFs
  \/ CreateActiveSDFs
  \/ CreateDynamicSDFs
  \/ CreateDefaultDistanceQuery

SpecConstruct == InitRobot /\ [][NextConstruct]_vars

\* the constructor and a query on the engine it built
NextRobot ==
  \/ NextConstruct
  \/ Query

SpecRobot == InitRobot /\ [][NextRobot]_vars

(***************************************************************************)
(* Claims about the construction and the self-distance query.              *)
(***************************************************************************)
Constructed == pc \in {"constructed", "queried", "faulted"}
AfterMatrix == pc # "createDefaultAllowedCollisionMatrix"

\* the disabled pairs of the SRDF, as unordered pairs
Disabled(a, b) ==
  \E i \in DOMAIN kmodel.disabled :
    kmodel.disabled[i] = <<a, b>> \/ kmodel.disabled[i] = <<b, a>>

\* any link name, one that no link carries included
Names == 1 .. (NumLinks + 1)

\* C1: after construction the Static, Active and Dynamic link sequences are
\* pairwise disjoint and together hold exactly the links with collision
\* geometry.
C1_RolesPartitionLinks ==
  Constructed =>
    /\ Range(static_links_) \cap Range(active_links_) = {}
    /\ Range(static_links_) \cap Range(dynamic_links_) = {}
    /\ Range(active_links_) \cap Range(dynamic_links_) = {}
    /\ Range(static_links_) \cup Range(active_links_) \cup Range(dynamic_links_)
         = kmodel.geom

\* C8: once the matrix is built, isCollisionAllowed is symmetric, true
\* exactly for the pairs the SRDF disables (in either order), and false
\* without a matrix.
C8_AllowedIffDisabled ==
  AfterMatrix =>
    \A a \in Names, b \in Names :
      /\ IsCollisionAllowed(a, b, acm_) = IsCollisionAllowed(b, a, acm_)
      /\ IsCollisionAllowed(a, b, acm_) <=> Disabled(a, b)
      /\ ~IsCollisionAllowed(a, b, Null)

\* a matrix with a disabled pair listed in one order, with a pair of links
\* with geometry that is not disabled, and with a name that has no entry
C8_Witness ==
  /\ AfterMatrix
  /\ \E a \in LinkIds, b \in LinkIds :
       /\ a # b
       /\ <<a, b>> \in Range(kmodel.disabled)
       /\ <<b, a>> \notin Range(kmodel.disabled)
       /\ IsCollisionAllowed(b, a, acm_)
  /\ \E a \in kmodel.geom, b \in kmodel.geom :
       AcmFound(Deref(acm_), a, b) /\ ~IsCollisionAllowed(a, b, acm_)
  /\ \E a \in LinkIds : ~AcmFound(Deref(acm_), a, NumLinks + 1)

\* the fitting of the link yields exactly one sphere at every voxel size
OneSphereAlways(l) == \A j \in 1 .. MaxAttempts : Len(kmodel.fit[l][j]) = 1

\* C9: an active link whose fitting yields one sphere at every voxel size
\* is tried 10 times, keeps an empty sphere model, is reported once, and
\* has an empty query plan.
C9_OneSphereGivesUp ==
  Constructed =>
    \A i \in DOMAIN active_links_ :
      OneSphereAlways(active_links_[i]) =>
        /\ active_sdf_[i].halvings = MaxAttempts - 1
        /\ active_spheres_[i] = NoSpheres
        /\ Len(SelectSeq(log, LAMBDA l : l = active_links_[i])) = 1
        /\ dist_query_[i].empty

\* C10: a query that names a group the model does not have is aborted
\* before any distance is computed, without touching the missing group.
C10_AbsentGroupAborts ==
  (pc \in {"queried", "faulted"} /\ ~HasJointModelGroup(kmodel, req.group_name)) =>
    /\ pc = "aborted"
    /\ distance = NoResult

(***************************************************************************)
(* getDistanceInfo (collision_common.cpp:41-76).                           *)
(* Points and the transform are taken along one axis: a point is a         *)
(* coordinate and tf a translation.                                        *)
(***************************************************************************)
InfoKeys == {"link1", "link2"}
InfoNames == {"link1", "link2", "box"}
Coordinates == {0, 1}
Translations == {0, 1}

\* an entry of the DistanceMap handed to getDistanceInfo
DetailedEntries ==
  [min_distance : Dists, link_name : InfoNames \X InfoNames,
   nearest_points : {p \in Coordinates \X Coordinates : p[2] = 1}]
DistanceMaps == UNION {[keys -> DetailedEntries] : keys \in SUBSET InfoKeys}

\* tf * point
Transformed(tf, point) == tf + point

\* Eigen normalize(): the direction of the vector; dividing the zero vector
\* by its norm gives no number
Normalize(v) == IF v > 0 THEN "+" ELSE IF v < 0 THEN "-" ELSE "nan"

\* DistanceInfo dist_info (line 46): the name is empty, the numbers are not
\* initialised and hold whatever the stack held
UninitInfo(junk) ==
  [nearest_obsticle |-> "", link_point |-> junk, obsticle_point |-> junk,
   avoidance_vector |-> "indeterminate", distance |-> junk]
JunkValues == {0, InfDist}

\* lines 50-55 (own = 1, other = 2) and lines 59-64 (own = 2, other = 1)
DerivedInfo(dist, tf, own, other) ==
  LET link_point == Transformed(tf, dist.nearest_points[own])
      obsticle_point == Transformed(tf, dist.nearest_points[other])
  IN  [nearest_obsticle |-> dist.link_name[other],
       link_point |-> link_point,
       obsticle_point |-> obsticle_point,
       avoidance_vector |-> Normalize(link_point - obsticle_point),
       distance |-> dist.min_distance]

\* lines 46-72: one pass of the loop, for the entry `dist` under `key`
InfoStep(acc, key, dist, tf, junk) ==
  LET dist_info == IF dist.link_name[1] = key THEN DerivedInfo(dist, tf, 1, 2)
                   ELSE IF dist.link_name[2] = key THEN DerivedInfo(dist, tf, 2, 1)
                   ELSE UninitInfo(junk)
      matched == dist.link_name[1] = key \/ dist.link_name[2] = key
  IN  [status |-> IF matched THEN acc.status ELSE acc.status /\ FALSE,
       distance_info_map |-> MapInsert(acc.distance_info_map, key, dist_info)]

\* lines 43-75: the loop over the entries still to visit
RECURSIVE InfoLoop(_, _, _, _, _)
InfoLoop(acc, distance_detailed, todo, tf, junk) ==
  IF todo = {} THEN acc
  ELSE LET key == CHOOSE k \in todo : TRUE
       IN  InfoLoop(InfoStep(acc, key, distance_detailed[key], tf, junk),
                    distance_detailed, todo \ {key}, tf, junk)

GetDistanceInfoResult(distance_detailed, info_map, tf, junk) ==
  InfoLoop([status |-> TRUE, distance_info_map |-> info_map],
           distance_detailed, DOMAIN distance_detailed, tf, junk)

InitInfo ==
  /\ pc = "getDistanceInfo"
  /\ kmodel = SceneModel
  /\ req = [group_name |-> "arm"]
  /\ minimum_distance = Cleared
  /\ distance \in DistanceMaps
  /\ collision = FALSE
  /\ done = FALSE
  /\ ret = FALSE
  /\ exit = "none"
  /\ distance_info_map = <<>>
  /\ sdfs_data = <<>>
  /\ NoRobot

GetDistanceInfo(tf, junk) ==
  /\ pc = "getDistanceInfo"
  /\ \E out \in {GetDistanceInfoResult(distance, distance_info_map, tf, junk)} :
       /\ distance_info_map' = out.distance_info_map
       /\ ret' = out.status
  /\ pc' = "derived"
  /\ UNCHANGED <<kmodel, req, minimum_distance, distance, collision, done, exit,
                 sdfs_data>>
  /\ UNCHANGED robotVars

NextInfo == \E tf \in Translations, junk \in JunkValues : GetDistanceInfo(tf, junk)

SpecInfo == InitInfo /\ [][NextInfo]_vars

\* the entry names its key in one of its two identifiers
Consistent(key) == key \in {distance[key].link_name[1], distance[key].link_name[2]}

\* C11: getDistanceInfo returns true exactly when every entry names its
\* key; it derives the Distance Info of every entry that does, and puts
\* nothing in the output map under the key of an entry that does not.
C11_InconsistentEntrySkipped ==
  pc = "derived" =>
    /\ ret <=> \A k \in DOMAIN distance : Consistent(k)
    /\ \A k \in DOMAIN distance :
         IF Consistent(k)
         THEN /\ k \in DOMAIN distance_info_map
              /\ distance_info_map[k].distance = distance[k].min_distance
              /\ distance_info_map[k].nearest_obsticle \in
                   {distance[k].link_name[1], distance[k].link_name[2]}
         ELSE k \notin DOMAIN distance_info_map

(***************************************************************************)
(* distanceSelfHelper (lines 523-597) on its own: a plan, the fields of    *)
(* the three roles and the values they hold at the sphere centres.         *)
(***************************************************************************)
MaxChildren == 2

\* the fields of a robot whose links are all active, the odd ones static
\* as well and the even ones dynamic
HelperFields ==
  [static |-> [i \in 1 .. ((NumLinks + 1) \div 2) |-> Field(2 * i - 1, 0)],
   dynamic |-> [i \in 1 .. (NumLinks \div 2) |-> Field(2 * i, 0)],
   active |-> [i \in 1 .. NumLinks |-> Field(i, 0)]]

\* every (name, role, index) that names a field of the arrays
ChildSlots(sdfs) ==
  {[name |-> sdfs.static[i].link, type |-> "Static", index |-> i] :
     i \in DOMAIN sdfs.static}
  \cup {[name |-> sdfs.dynamic[i].link, type |-> "Dynamic", index |-> i] :
          i \in DOMAIN sdfs.dynamic}
  \cup {[name |-> sdfs.active[i].link, type |-> "Active", index |-> i] :
          i \in DOMAIN sdfs.active}

\* a plan with the given children and spheres
PlanOf(parent, children, spheres) ==
  [parent_name |-> parent, empty |-> FALSE,
   child_name |-> [i \in DOMAIN children |-> children[i].name],
   child_index |-> [i \in DOMAIN children |-> children[i].index],
   child_type |-> [i \in DOMAIN children |-> children[i].type],
   spheres |-> spheres]

InitHelper ==
  /\ pc = "distanceSelfHelper"
  /\ kmodel = <<>>
  /\ req = [group_name |-> NoName]
  /\ minimum_distance = NewResultsData
  /\ distance = NoResult
  /\ collision = FALSE
  /\ done = FALSE
  /\ ret = FALSE
  /\ exit = "none"
  /\ distance_info_map = <<>>
  /\ \E sample \in Samples : sdfs_data = [fields |-> HelperFields, sample |-> sample]
  /\ links_ = <<>>
  /\ acm_ = Null
  /\ static_links_ = <<>>
  /\ static_sdf_ = HelperFields.static
  /\ active_links_ = <<>>
  /\ active_sdf_ = HelperFields.active
  /\ active_spheres_ = <<>>
  /\ dynamic_links_ = <<>>
  /\ dynamic_sdf_ = HelperFields.dynamic
  /\ \E n \in 0 .. MaxChildren, spheres \in {OneSphere, TwoSpheres} :
       \E children \in [1 .. n -> ChildSlots(HelperFields)] :
         dist_query_ = <<PlanOf(NumLinks, children, spheres)>>
  /\ log = <<>>

\* distanceSelfHelper(data, sdfs_data, res) on a fresh res
CallDistanceSelfHelper ==
  /\ pc = "distanceSelfHelper"
  /\ minimum_distance' =
       DistanceSelfHelper(dist_query_[1], sdfs_data.fields, sdfs_data.sample)
  /\ pc' = "helped"
  /\ UNCHANGED <<kmodel, req, distance, collision, done, ret, exit, distance_info_map,
                 sdfs_data>>
  /\ UNCHANGED robotVars

NextHelper == CallDistanceSelfHelper

SpecHelper == InitHelper /\ [][NextHelper]_vars

\* the planned child i and the sphere j whose sample is not the background
PlanHits ==
  LET data == dist_query_[1]
  IN  {h \in (DOMAIN data.child_name) \X (DOMAIN data.spheres) :
         sdfs_data.sample[<<data.child_name[h[1]], data.spheres[h[2]].center>>]
           # Background}

\* sampled value minus sphere radius
HitDistance(h) ==
  LET data == dist_query_[1]
  IN  sdfs_data.sample[<<data.child_name[h[1]], data.spheres[h[2]].center>>]
        - data.spheres[h[2]].radius

\* C12: distanceSelfHelper yields the least (sampled value - radius) over
\* the planned bodies and the spheres, background samples left out, with
\* the planned body that realizes it as second identifier; without any
\* such sample it yields the background value.
C12_HelperMinimum ==
  pc = "helped" =>
    /\ minimum_distance.link_name[1] = dist_query_[1].parent_name
    /\ IF PlanHits = {}
       THEN minimum_distance.min_distance = Background
       ELSE /\ \A h \in PlanHits : minimum_distance.min_distance <= HitDistance(h)
            /\ \E h \in PlanHits :
                 /\ HitDistance(h) = minimum_distance.min_distance
                 /\ dist_query_[1].child_name[h[1]] = minimum_distance.link_name[2]

\* two planned bodies were hit, the second closer than the first, and a
\* background sample was left out
C12_Witness ==
  /\ pc = "helped"
  /\ \E h \in PlanHits, g \in PlanHits :
       /\ h[1] < g[1]
       /\ HitDistance(g) < HitDistance(h)
       /\ minimum_distance.min_distance = HitDistance(g)
  /\ \E i \in DOMAIN dist_query_[1].child_name, j \in DOMAIN dist_query_[1].spheres :
       <<i, j>> \notin PlanHits

\* no active link has a sphere model, so no plan initiates a query
NoInitiator == \A i \in DOMAIN dist_query_ : dist_query_[i].empty

\* C13: when no active link has spheres (or there is no active link), a
\* distanceSelf query on an empty result, for a group the model has, ends
\* normally with the per-link map still empty.
C13_EmptyResultDefined ==
  (/\ pc \in {"queried", "faulted"}
   /\ HasJointModelGroup(kmodel, req.group_name)
   /\ NoInitiator)
  => (pc = "queried" /\ distance = NoResult)

\* the link that owns the body is in the active set of the request
OwnerActive(o) ==
  \E l \in Deref(req.active_components_only) :
    \/ BodyType(o) = "ROBOT_LINK" /\ l = o
    \/ BodyType(o) = "ROBOT_ATTACHED" /\ l = GetAttachedLink(o)

\* the per-link entries that an outcome inserted or changed
Written(out) ==
  {k \in DOMAIN out.distance : k \notin DOMAIN distance \/ out.distance[k] # distance[k]}

\* C14: in per-link mode with a group restriction, a pair without an active
\* side changes nothing, an entry is only written under the identifier of a
\* side whose owning link is active, and a measured pair with exactly one
\* active side and a distance below the bound lowers the global minimum to
\* that distance at least.
C14_OnlyActiveSidesWritten ==
  (pc = "query" /\ ~req.global /\ req.active_components_only # Null) =>
    \A o1 \in Bodies, o2 \in Bodies, d \in Dists :
      \A s1 \in ObjId(o1), s2 \in ObjId(o2) :
        LET out == Invoke(o1, o2, d, s1, s2)
        IN  /\ (~OwnerActive(o1) /\ ~OwnerActive(o2)) => Untouched(out)
            /\ \A k \in Written(out) :
                 \/ k = GetID(o1) /\ OwnerActive(o1)
                 \/ k = GetID(o2) /\ OwnerActive(o2)
            /\ (/\ OwnerActive(o1) # OwnerActive(o2)
                /\ ~Dismissed(req, o1, o2)
                /\ d < DistThreshold(req, minimum_distance, distance, o1, o2, s1, s2))
               => out.minimum_distance.min_distance <= d

AfterStaticWalk == pc \notin {"createDefaultAllowedCollisionMatrix", "createStaticSDFs"}

\* C15: the walk over the fixed joints puts no link twice in the Static
\* sequence, the root included, and the static fields run parallel to it.
C15_StaticWalkNoDuplicates ==
  AfterStaticWalk =>
    /\ \A i \in DOMAIN static_links_, j \in DOMAIN static_links_ :
         static_links_[i] = static_links_[j] => i = j
    /\ DOMAIN static_sdf_ = DOMAIN static_links_
    /\ \A i \in DOMAIN static_links_ : static_sdf_[i].link = static_links_[i]

\* the links of a role, by the role's name
RoleLinks(type) ==
  IF type = "Static" THEN static_links_
  ELSE IF type = "Dynamic" THEN dynamic_links_
  ELSE active_links_

\* C16: after construction the plan of every active link with spheres
\* lists exactly the other links with geometry whose collision with it is
\* not allowed, each once, with its role and a valid index into the role's
\* array, and never the link itself.
C16_PlanListsOthersOnce ==
  pc = "constructed" =>
    \A j \in DOMAIN dist_query_ :
      ~dist_query_[j].empty =>
        LET data == dist_query_[j]
            self == active_links_[j]
        IN  /\ data.parent_name = self
            /\ Range(data.child_name) =
                 {b \in kmodel.geom \ {self} : ~IsCollisionAllowed(b, self, acm_)}
            /\ \A a \in DOMAIN data.child_name, b \in DOMAIN data.child_name :
                 data.child_name[a] = data.child_name[b] => a = b
            /\ \A a \in DOMAIN data.child_name :
                 /\ data.child_index[a] \in DOMAIN RoleLinks(data.child_type[a])
                 /\ RoleLinks(data.child_type[a])[data.child_index[a]] = data.child_name[a]
            /\ self \notin Range(data.child_name)

\* an entry that holds a measurement (clear() leaves the largest distance)
Stored(entry) == entry.min_distance # Cleared.min_distance

\* C17: in per-link mode and in global mode alike, no distance at or above
\* the request's distance_threshold is stored in the global minimum entry
\* or in a per-link entry.
C17_StoredBelowRequestThreshold ==
  /\ Stored(minimum_distance) =>
       minimum_distance.min_distance < req.distance_threshold
  /\ \A k \in DOMAIN distance :
       distance[k].min_distance < req.distance_threshold

\* C18: in per-link mode the distance of the global minimum entry is at most
\* that of every per-link entry and, once the per-link map holds an entry,
\* equal to the smallest of them; a pair closer than the global minimum (and
\* than the request's threshold) is always below the bound handed to its
\* measurement, and folding it makes its distance the global minimum.
C18_GlobalIsSmallestEntry ==
  ~req.global =>
    /\ \A k \in DOMAIN distance :
         minimum_distance.min_distance <= distance[k].min_distance
    /\ DOMAIN distance # {} =>
         \E k \in DOMAIN distance :
           distance[k].min_distance = minimum_distance.min_distance
    /\ pc = "query" =>
         \A o1 \in Bodies, o2 \in Bodies :
           ~Dismissed(req, o1, o2) =>
             \A d \in Dists, s1 \in ObjId(o1), s2 \in ObjId(o2) :
               LET out == Invoke(o1, o2, d, s1, s2)
                   bound == DistThreshold(req, minimum_distance, distance,
                                          o1, o2, s1, s2)
               IN  (d < minimum_distance.min_distance /\ d < req.distance_threshold)
                     => /\ Closer(d, bound)
                        /\ out.exit = "folded" =>
                             out.minimum_distance.min_distance = d

\* C18 witness: per-link mode, a pair was folded, two entries hold different
\* distances and the global minimum is the smaller one.
C18_Witness ==
  /\ ~req.global
  /\ exit = "folded"
  /\ \E k1 \in DOMAIN distance, k2 \in DOMAIN distance :
       /\ distance[k1].min_distance = minimum_distance.min_distance
       /\ distance[k1].min_distance < distance[k2].min_distance
       /\ distance[k2].min_distance < req.distance_threshold

====
